---- MODULE Spec2Model ----
(***************************************************************************)
(* Condition-driven matching pipeline of the clinical-trial matcher:       *)
(* the two matching handlers (POST /api/matches/stream, POST /api/matches),*)
(* the scoring passes they call, the response parser of the scoring        *)
(* engine, and the match and trial collections they share.                 *)
(***************************************************************************)
EXTENDS Integers, Sequences, FiniteSets, TLC

VARIABLES
    matches,      \* the matches collection: a set of MatchResultDocument
    trialsStore,  \* the trials collection: nctIds in insertion order
    pc,           \* per request: the await the handler is suspended at
    mode,         \* per request: "stream" | "batch" | "none"
    patientId,    \* per request: the patientId of the request body
    aborted,      \* per request: the SSE client has disconnected
    studies,      \* per request: what searchTrials returned
    trials,       \* per request: the candidate list handed to the scoring pass
    i,            \* per request: the loop index of the current loop
    call,         \* per request: per candidate, the state of its evaluateTrialMatch call
    results,      \* per request: the results array of the scoring pass
    validMatches, \* per request: the handler's filtered list
    events,       \* per request: the SSE events written, in order
    outcome,      \* per request: the terminal event / HTTP response
    retrieved,    \* per request: how the registry answered ("none" before)
    content,      \* parser harness: the message content handed to parseMatchResponse
    parsed,       \* parser harness: what parseMatchResponse returned
    attempt,      \* makeOpenAIRequest: the loop variable `attempt`
    sent,         \* makeOpenAIRequest: the fetch calls made, each with its answer
    request,      \* makeOpenAIRequest: where the call stands
    conditions,   \* searchTrials: its argument `conditions`
    prioritizedConditions, \* searchTrials: the cleaned, sorted condition list
    primaryCondition,      \* searchTrials: prioritizedConditions[0]
    queries,      \* searchTrials: the registry queries made, each with its answer
    search,       \* searchTrials: where the call stands
    found,        \* searchTrials: data.studies of the primary query, then the return value
    wire,         \* web client: the events of the response body, in order
    received,     \* web client: how much of the body reader.read() has handed over
    buffer,       \* web client: startMatching's `buffer`
    dispatched,   \* web client: the calls of handleSSEEvent, in order
    timers,       \* web client: the setTimeout callbacks not yet run
    onCompleteCalls, \* web client: the calls of the onComplete prop
    onErrorCalls  \* web client: the calls of the onError prop

vars == <<matches, trialsStore, pc, mode, patientId, aborted, studies, trials, i,
          call, results, validMatches, events, outcome, retrieved, content, parsed,
          attempt, sent, request, conditions, prioritizedConditions,
          primaryCondition, queries, search, found, wire, received, buffer,
          dispatched, timers, onCompleteCalls, onErrorCalls>>

runVars == <<pc, mode, patientId, aborted, studies, trials, i, call, results,
             validMatches, events, outcome, retrieved>>

parseVars == <<content, parsed>>

requestVars == <<attempt, sent, request>>

searchVars == <<conditions, prioritizedConditions, primaryCondition, queries, search, found>>

clientVars == <<wire, received, buffer, dispatched, timers, onCompleteCalls, onErrorCalls>>

harnessVars == <<parseVars, requestVars, searchVars, clientVars>>

(***************************************************************************)
(* Bounds of the model.                                                    *)
(***************************************************************************)
\* longest list the registry returns to a handler in Spec
MaxTrials == 2
\* longest candidate list handed to a scoring pass in SpecScoring
MaxCandidates == 6

Runs == {"r1", "r2"}
PatientIds == {"p1", "p2"}
TrialIds == 1..MaxTrials

(***************************************************************************)
(* Program constants.                                                      *)
(***************************************************************************)
BATCH_SIZE == 5
MinScore == 40
MaxScore == 100

\* Math.round / Math.min / Math.max give NaN on a NaN operand; NaN is kept as
\* one integer outside every score the model uses, and every operator that
\* touches a score treats it as JavaScript treats NaN.
NaN == -1000000

Min2(a, b) == IF a <= b THEN a ELSE b
Max2(a, b) == IF a >= b THEN a ELSE b

RECURSIVE SeqRange(_, _)
SeqRange(a, b) == IF a > b THEN <<>> ELSE <<a>> \o SeqRange(a + 1, b)

Range(s) == {s[k] : k \in 1..Len(s)}

(***************************************************************************)
(* Scoring engine: parseMatchResponse.                                     *)
(*                                                                         *)
(* A message content is kept by what the parser can tell apart:            *)
(*   form "json"        JSON.parse(content) gives an object                *)
(*   form "jsonOther"   JSON.parse(content) gives null, a number, a string *)
(*   form "embedded"    JSON.parse(content) throws, the regex finds an     *)
(*                      object with "score" and "reasoning", and that      *)
(*                      object parses                                      *)
(*   form "embeddedBad" as "embedded", but the matched text does not parse *)
(*   form "text"        JSON.parse(content) throws and the regex finds     *)
(*                      nothing                                            *)
(* and by the score and reasoning members of the object.  A JSON number is *)
(* kept in tenths, so that Math.round has something to round.              *)
(***************************************************************************)
ModelReasoning == "model reasoning"
UnableMsg == "Unable to evaluate match due to processing error."
EvalFailedMsg == "Evaluation failed due to processing error."
UndefinedReasoning == "undefined"
NonStringReasoning == "non-string"

\* JavaScript ToNumber of the score member, in tenths (NaN when not a number)
ToNumberTenths(f) ==
    CASE f.kind = "number" -> f.tenths
      [] f.kind = "numstring" -> f.tenths
      [] f.kind = "null" -> 0
      [] f.kind = "true" -> 10
      [] OTHER -> NaN

\* Math.round: the nearest integer, halves towards +Infinity
MathRound(tenths) == IF tenths = NaN THEN NaN ELSE (tenths + 5) \div 10

\* Math.min(100, x) and Math.max(0, x): NaN when x is NaN
MathMin100(x) == IF x = NaN THEN NaN ELSE Min2(MaxScore, x)
MathMax0(x) == IF x = NaN THEN NaN ELSE Max2(0, x)

Clamp(tenths) == MathMax0(MathMin100(MathRound(tenths)))

ReasoningOf(f) ==
    CASE f = "string" -> ModelReasoning
      [] f = "missing" -> UndefinedReasoning
      [] OTHER -> NonStringReasoning

\* the default response passing the model's missing reasoning through
DefaultResponseNoMarker == [score |-> 0, reasoning |-> UndefinedReasoning]

\* lines 327-332: the default response
DefaultResponse == [score |-> 0, reasoning |-> UnableMsg]

\* the direct path's test:
\* typeof parsed.score === "number" && typeof parsed.reasoning === "string"
DirectAccepts(c) == c.score.kind = "number" /\ c.reasoning = "string"

ParseMatchResponse(c) ==
    CASE c.form = "json" ->
            IF DirectAccepts(c)
            THEN [score |-> Clamp(c.score.tenths), reasoning |-> ModelReasoning]
            ELSE DefaultResponse
      [] c.form = "embedded" ->
            \* the fallback path: no typeof test before Math.round(parsed.score)
            [score |-> Clamp(ToNumberTenths(c.score)),
             reasoning |-> ReasoningOf(c.reasoning)]
      [] OTHER -> DefaultResponse

(***************************************************************************)
(* The matches collection.  A document is                                  *)
(* [patientId, trialId, confidenceScore, reasoning, createdAt]; its _id is *)
(* patientId_trialId_createdAt and adds nothing to these.  createdAt is    *)
(* the scoring pass's `now`, one per request.                              *)
(***************************************************************************)
BeforeRuns == "t0"
Now(r) == r

\* a collection without the unique index: no document is refused
SamePairNever(d, e) == FALSE

\* the unique index { patientId: 1, trialId: 1 }: d and e collide
SamePair(d, e) == d.patientId = e.patientId /\ d.trialId = e.trialId

\* matchesCollection.deleteMany({ patientId })
DeleteMany(store, p) == {d \in store : d.patientId # p}

\* matchesCollection.insertMany(documents): ordered, so it stops at the first
\* document the unique index { patientId: 1, trialId: 1 } refuses, keeps what
\* it inserted before that one, and throws
RECURSIVE InsertMany(_, _)
InsertMany(store, docs) ==
    IF docs = <<>> THEN [store |-> store, ok |-> TRUE]
    ELSE IF \E d \in store : SamePair(d, Head(docs))
         THEN [store |-> store, ok |-> FALSE]
         ELSE InsertMany(store \cup {Head(docs)}, Tail(docs))

\* a > b in the order .sort({ confidenceScore: -1 }) puts first
RECURSIVE SortDocs(_)
SortDocs(S) ==
    IF S = {} THEN <<>>
    ELSE LET top == CHOOSE d \in S : \A e \in S : d.confidenceScore >= e.confidenceScore
         IN  <<top>> \o SortDocs(S \ {top})

\* matchesCollection.find({ patientId }).sort({ confidenceScore: -1 }).toArray()
FindMatches(p) == SortDocs({d \in matches : d.patientId = p})

\* GET /api/matches/:patientId: the documents joined with the trials
\* collection, those without a trial dropped
GetMatches(p) ==
    SelectSeq(FindMatches(p), LAMBDA d : d.trialId \in Range(trialsStore))

(***************************************************************************)
(* The trials collection, keyed by nctId.                                  *)
(***************************************************************************)
\* collection.updateOne({ _id: trial.nctId }, { $set: ... }, { upsert: true })
UpsertTrial(store, id) == IF id \in Range(store) THEN store ELSE Append(store, id)

(***************************************************************************)
(* Scoring passes: the result of one candidate, the filter and the sort.   *)
(***************************************************************************)
MatchResult(r, trial, score, reasoning) ==
    [patientId |-> patientId[r], trialId |-> trial, confidenceScore |-> score,
     reasoning |-> reasoning, createdAt |-> Now(r)]

\* the try branch: evaluateTrialMatch returned { score, reasoning }
ScoredResult(r, trial, out) == MatchResult(r, trial, out.score, out.reasoning)

\* the catch branch recording a failure marker instead of the score 0
FailedResultMarker(r, trial) == MatchResult(r, trial, -1, EvalFailedMsg)

\* the catch branch: evaluateTrialMatch threw
FailedResult(r, trial) == MatchResult(r, trial, 0, EvalFailedMsg)

ResultOf(r, trial, out) ==
    IF out.st = "ok" THEN ScoredResult(r, trial, out) ELSE FailedResult(r, trial)

\* the filter without its floor: every numeric score is kept
IsValidMatchAnyScore(m) == m.confidenceScore # NaN /\ m.confidenceScore >= 0

\* m.confidenceScore >= 40 (false for NaN)
IsValidMatch(m) == m.confidenceScore # NaN /\ m.confidenceScore >= MinScore

FilterValid(seq) == SelectSeq(seq, IsValidMatch)

\* (a, b) => b.confidenceScore - a.confidenceScore is positive: b goes first.
\* A NaN difference counts as 0 (SortCompare).
GoesBefore(b, a) ==
    /\ a.confidenceScore # NaN
    /\ b.confidenceScore # NaN
    /\ b.confidenceScore > a.confidenceScore

\* results.sort(...): stable, built by insertion from the left
RECURSIVE InsertSorted(_, _)
InsertSorted(s, x) ==
    IF s = <<>> THEN <<x>>
    ELSE IF GoesBefore(x, s[Len(s)])
         THEN Append(InsertSorted(SubSeq(s, 1, Len(s) - 1), x), s[Len(s)])
         ELSE Append(s, x)

RECURSIVE SortByScore(_)
SortByScore(seq) ==
    IF seq = <<>> THEN <<>>
    ELSE InsertSorted(SortByScore(SubSeq(seq, 1, Len(seq) - 1)), seq[Len(seq)])

\* results.sort(...) as a bottom-up merge sort: the right head is taken when
\* the comparator, called with (right, left), answers a number below 0
RECURSIVE Merge(_, _)
Merge(left, right) ==
    IF right = <<>> THEN left
    ELSE IF left = <<>> THEN right
    ELSE IF GoesBefore(Head(right), Head(left))
         THEN <<Head(right)>> \o Merge(left, Tail(right))
         ELSE <<Head(left)>> \o Merge(Tail(left), right)

\* one pass: neighbouring runs of `width` elements merged, from index `from`
RECURSIVE MergePass(_, _, _)
MergePass(seq, width, from) ==
    IF from > Len(seq) THEN <<>>
    ELSE LET leftEnd == Min2(from + width - 1, Len(seq))
             rightEnd == Min2(from + 2 * width - 1, Len(seq))
         IN  Merge(SubSeq(seq, from, leftEnd), SubSeq(seq, leftEnd + 1, rightEnd))
                \o MergePass(seq, width, from + 2 * width)

RECURSIVE MergeSortFrom(_, _)
MergeSortFrom(seq, width) ==
    IF width >= Len(seq) THEN seq
    ELSE MergeSortFrom(MergePass(seq, width, 1), 2 * width)

MergeSort(seq) == MergeSortFrom(seq, 1)

\* Array.prototype.sort with this comparator: when every score is a number
\* the comparator is consistent and the stable order is the one result; when
\* a score is NaN the comparator answers NaN (taken as 0) against it, is not
\* consistent, and the order is implementation-defined: the order an
\* insertion sort leaves, or the order a merge sort leaves
SortOutcomes(seq) == {SortByScore(seq), MergeSort(seq)}

(***************************************************************************)
(* SSE events and terminal results.                                        *)
(***************************************************************************)
Ev(type, nctId, score, text, index, total) ==
    [type |-> type, nctId |-> nctId, score |-> score, text |-> text,
     index |-> index, total |-> total]

Progress(step) == Ev("progress", 0, 0, "", step, 0)
\* the failure written under the event name of a progress update
ErrorEventAsProgress(message) == Ev("progress", 0, 0, message, 0, 0)

ErrorEvent(message) == Ev("error", 0, 0, message, 0, 0)
CompleteEvent(n) == Ev("complete", 0, 0, "", 0, n)
\* the event carrying the loop index i instead of i + 1
MatchingTrialZeroBased(m, index, total) ==
    Ev("matching_trial", m.trialId, m.confidenceScore, m.reasoning, index - 1, total)

MatchingTrial(m, index, total) ==
    Ev("matching_trial", m.trialId, m.confidenceScore, m.reasoning, index, total)

PatientNotFound == "Patient not found"
NoTrialsFound == "No trials found for your conditions"
RegistryError == "API error"
InsertError == "E11000 duplicate key error"

\* the patients collection: every patient id of the model but "ghost"
Patients == PatientIds
RequestIds == PatientIds \cup {"ghost"}

NoCall == [st |-> "none", score |-> 0, reasoning |-> ""]
InFlight == [st |-> "inflight", score |-> 0, reasoning |-> ""]

\* a call that has returned or thrown
Settled(c) == c.st \in {"ok", "failed"}

\* a handler whose events are never written
EmitNothing(r, evs) == events' = events

Emit(r, evs) == events' = [events EXCEPT ![r] = @ \o evs]

\* the handler returns: stream.writeSSE of the terminal event, or c.json(...)
Finish(r, result, evs) ==
    /\ pc' = [pc EXCEPT ![r] = "done"]
    /\ outcome' = [outcome EXCEPT ![r] = result]
    /\ Emit(r, IF mode[r] = "stream" THEN evs ELSE <<>>)

(***************************************************************************)
(* POST /api/matches/stream and POST /api/matches, up to the scoring pass. *)
(***************************************************************************)
\* stream: sendEvent("progress", step 0), findOne; batch: findOne
StartRun(r, m, p) ==
    /\ pc[r] = "idle"
    /\ mode' = [mode EXCEPT ![r] = m]
    /\ patientId' = [patientId EXCEPT ![r] = p]
    /\ IF p \in Patients
       THEN /\ pc' = [pc EXCEPT ![r] = IF m = "stream" THEN "clearTrials" ELSE "getAllTrials"]
            /\ Emit(r, IF m = "stream" THEN <<Progress(0)>> ELSE <<>>)
            /\ UNCHANGED outcome
       ELSE /\ pc' = [pc EXCEPT ![r] = "done"]
            /\ outcome' = [outcome EXCEPT ![r] = "patient_not_found"]
            /\ Emit(r, IF m = "stream"
                       THEN <<Progress(0), ErrorEvent(PatientNotFound)>> ELSE <<>>)
    /\ UNCHANGED <<matches, trialsStore, aborted, studies, trials, i, call, results,
                   validMatches, retrieved, harnessVars>>

\* ingestTrialsWithProgress: clearTrials(), then the firecrawl_start event
ClearTrials(r) ==
    /\ pc[r] = "clearTrials"
    /\ trialsStore' = <<>>
    /\ Emit(r, <<Ev("firecrawl_start", 0, 0, "", 0, 0)>>)
    /\ pc' = [pc EXCEPT ![r] = "searchTrials"]
    /\ UNCHANGED <<matches, mode, patientId, aborted, studies, trials, i, call, results,
                   validMatches, outcome, retrieved, harnessVars>>

\* batch: let trials = await getAllTrials(); ingest only when there are none
GetAllTrials(r) ==
    /\ pc[r] = "getAllTrials"
    /\ trials' = [trials EXCEPT ![r] = trialsStore]
    /\ call' = [call EXCEPT ![r] = [k \in 1..Len(trialsStore) |-> NoCall]]
    /\ pc' = [pc EXCEPT ![r] = IF trialsStore = <<>> THEN "searchTrials" ELSE "dispatch"]
    /\ UNCHANGED <<matches, trialsStore, mode, patientId, aborted, studies, i, results,
                   validMatches, events, outcome, retrieved, harnessVars>>

\* what the registry can answer to searchTrials: a failure, or the first n
\* studies of its ranking, n = 0..MaxTrials
RegistryResponses ==
    {[ok |-> FALSE, studies |-> <<>>]}
        \cup {[ok |-> TRUE, studies |-> SeqRange(1, n)] : n \in 0..MaxTrials}

\* stream: searchTrials inside ingestTrialsWithProgress, whose catch rethrows;
\* batch: searchTrials inside scrapeTrialsForConditions, whose catch returns []
SearchTrials(r, resp) ==
    /\ pc[r] = "searchTrials"
    /\ retrieved' = [retrieved EXCEPT ![r] =
            IF ~resp.ok THEN "failed" ELSE IF resp.studies = <<>> THEN "empty" ELSE "found"]
    /\ studies' = [studies EXCEPT ![r] = resp.studies]
    /\ IF ~resp.ok /\ mode[r] = "stream"
       THEN Finish(r, "failed", <<ErrorEvent(RegistryError)>>)
       ELSE IF resp.studies = <<>>
       THEN Finish(r, "no_trials",
                   <<Ev("firecrawl_found", 0, 0, "", 0, 0),
                     Ev("firecrawl_complete", 0, 0, "", 0, 0),
                     ErrorEvent(NoTrialsFound)>>)
       ELSE /\ pc' = [pc EXCEPT ![r] = "upsertTrial"]
            /\ Emit(r, IF mode[r] = "stream"
                       THEN <<Ev("firecrawl_found", 0, 0, "", 0, Len(resp.studies))>>
                       ELSE <<>>)
            /\ UNCHANGED outcome
    /\ i' = [i EXCEPT ![r] = 0]
    /\ trials' = [trials EXCEPT ![r] = <<>>]
    /\ UNCHANGED <<matches, trialsStore, mode, patientId, aborted, call, results,
                   validMatches, harnessVars>>

\* one turn of the ingestion loop: updateOne(..., { upsert: true }),
\* trials.push(trial), and in streaming mode the firecrawl_trial event; after
\* the last turn firecrawl_complete
UpsertNext(r) ==
    /\ pc[r] = "upsertTrial"
    /\ LET n == Len(studies[r])
           t == studies[r][i[r] + 1]
           last == i[r] + 1 = n
       IN  /\ trialsStore' = UpsertTrial(trialsStore, t)
           /\ trials' = [trials EXCEPT ![r] = Append(@, t)]
           /\ i' = [i EXCEPT ![r] = IF last THEN 0 ELSE @ + 1]
           /\ Emit(r, IF mode[r] = "stream"
                      THEN <<Ev("firecrawl_trial", t, 0, "", i[r] + 1, n)>>
                           \o (IF last THEN <<Ev("firecrawl_complete", 0, 0, "", 0, n)>>
                               ELSE <<>>)
                      ELSE <<>>)
           /\ call' = [call EXCEPT ![r] = IF last THEN [k \in 1..n |-> NoCall] ELSE @]
           /\ pc' = [pc EXCEPT ![r] = IF last THEN "dispatch" ELSE @]
    /\ UNCHANGED <<matches, mode, patientId, aborted, studies, results, validMatches,
                   outcome, retrieved, harnessVars>>

(***************************************************************************)
(* The scoring passes: matchPatientToTrials (batch mode, groups of         *)
(* BATCH_SIZE run by Promise.all) and matchPatientToTrialsWithProgress     *)
(* (incremental mode, one await at a time).  i[r] counts the candidates    *)
(* whose result has been pushed.                                           *)
(***************************************************************************)
\* every remaining candidate dispatched at once
GroupEndAll(r) == Len(trials[r])

\* the last index of the group dispatched next
GroupEnd(r) ==
    IF mode[r] = "batch" THEN Min2(i[r] + BATCH_SIZE, Len(trials[r])) ELSE i[r] + 1

InFlightOf(r) == {k \in 1..Len(call[r]) : call[r][k].st = "inflight"}

\* batch: batch.map(async (trial) => ...) starts every call of the group;
\* incremental: matching_start before the first turn, then the turn's call
Dispatch(r) ==
    /\ pc[r] = "dispatch"
    /\ call' = [call EXCEPT ![r] =
            [k \in 1..Len(@) |-> IF k > i[r] /\ k <= GroupEnd(r) THEN InFlight ELSE @[k]]]
    /\ Emit(r, IF mode[r] = "stream" /\ i[r] = 0
               THEN <<Ev("matching_start", 0, 0, "", 0, Len(trials[r]))>> ELSE <<>>)
    /\ pc' = [pc EXCEPT ![r] = "settle"]
    /\ UNCHANGED <<matches, trialsStore, mode, patientId, aborted, studies, trials, i,
                   results, validMatches, outcome, retrieved, harnessVars>>

\* the results array once the calls up to index `upto` have been pushed
Pushed(r, calls, upto) ==
    results[r] \o [k \in 1..(upto - i[r]) |->
                      ResultOf(r, trials[r][i[r] + k], calls[i[r] + k])]

\* the scoring pass returns: results.sort(...), and the handler filters
AfterPass(r, all) ==
    \E sorted \in SortOutcomes(all) :
        /\ results' = [results EXCEPT ![r] = sorted]
        /\ validMatches' = [validMatches EXCEPT ![r] = FilterValid(sorted)]
        /\ pc' = [pc EXCEPT ![r] =
                IF FilterValid(sorted) # <<>> THEN "deleteMany" ELSE "notify"]

\* one evaluateTrialMatch call settles with `out`: returned or threw
Settle(r, k, out) ==
    /\ pc[r] = "settle"
    /\ k \in InFlightOf(r)
    /\ LET calls == [call[r] EXCEPT ![k] = out]
           n == Len(trials[r])
           groupDone == \A j \in InFlightOf(r) : j = k
           upto == IF groupDone THEN GroupEnd(r) ELSE i[r]
           all == Pushed(r, calls, upto)
       IN  /\ call' = [call EXCEPT ![r] = calls]
           /\ i' = [i EXCEPT ![r] = upto]
           /\ Emit(r, IF mode[r] = "stream"
                      THEN <<MatchingTrial(all[Len(all)], k, n)>>
                           \o (IF upto = n
                               THEN <<Ev("matching_complete", 0, 0, "", 0,
                                         Len(FilterValid(all)))>>
                               ELSE <<>>)
                      ELSE <<>>)
           /\ IF upto = n
              THEN AfterPass(r, all)
              ELSE /\ results' = [results EXCEPT ![r] = all]
                   /\ pc' = [pc EXCEPT ![r] = IF groupDone THEN "dispatch" ELSE @]
                   /\ UNCHANGED validMatches
    /\ UNCHANGED <<matches, trialsStore, mode, patientId, aborted, studies, trials,
                   outcome, retrieved, harnessVars>>

(***************************************************************************)
(* The handlers after the scoring pass.                                    *)
(***************************************************************************)
\* await matchesCollection.deleteMany({ patientId })
DeleteStep(r) ==
    /\ pc[r] = "deleteMany"
    /\ matches' = DeleteMany(matches, patientId[r])
    /\ pc' = [pc EXCEPT ![r] = "insertMany"]
    /\ UNCHANGED <<trialsStore, mode, patientId, aborted, studies, trials, i, call,
                   results, validMatches, events, outcome, retrieved, harnessVars>>

\* await matchesCollection.insertMany(documents); a throw goes to the
\* handler's catch: the error event, or the 500 response
InsertStep(r) ==
    /\ pc[r] = "insertMany"
    /\ LET ins == InsertMany(matches, validMatches[r])
       IN  /\ matches' = ins.store
           /\ IF ins.ok
              THEN /\ pc' = [pc EXCEPT ![r] = "notify"]
                   /\ UNCHANGED <<events, outcome>>
              ELSE Finish(r, "failed", <<ErrorEvent(InsertError)>>)
    /\ UNCHANGED <<trialsStore, mode, patientId, aborted, studies, trials, i, call,
                   results, validMatches, retrieved, harnessVars>>

\* sendMatchNotification (it never throws), then the complete event or the
\* 200 response with validMatches
Notify(r) ==
    /\ pc[r] = "notify"
    /\ pc' = [pc EXCEPT ![r] = "done"]
    /\ outcome' = [outcome EXCEPT ![r] = "complete"]
    /\ Emit(r, IF mode[r] = "stream"
               THEN <<Progress(3), CompleteEvent(Len(validMatches[r]))>> ELSE <<>>)
    /\ UNCHANGED <<matches, trialsStore, mode, patientId, aborted, studies, trials, i,
                   call, results, validMatches, retrieved, harnessVars>>

\* the SSE client goes away; nothing in the handler reads it
Disconnect(r) ==
    /\ mode[r] = "stream"
    /\ pc[r] \notin {"idle", "done"}
    /\ ~aborted[r]
    /\ aborted' = [aborted EXCEPT ![r] = TRUE]
    /\ UNCHANGED <<matches, trialsStore, pc, mode, patientId, studies, trials, i, call,
                   results, validMatches, events, outcome, retrieved, harnessVars>>

\* the parser harness: parseMatchResponse(content)
Parse ==
    /\ content.form # "none"
    /\ parsed.reasoning = "not parsed"
    /\ parsed' = ParseMatchResponse(content)
    /\ UNCHANGED <<matches, trialsStore, runVars, content, requestVars, searchVars,
                   clientVars>>

(***************************************************************************)
(* Initial states.                                                         *)
(***************************************************************************)
NoContent == [form |-> "none", score |-> [kind |-> "missing", tenths |-> 0],
              reasoning |-> "missing"]
NotParsed == [score |-> 0, reasoning |-> "not parsed"]

\* parseMatchResponse is not being exercised
ParserIdle == content = NoContent /\ parsed = NotParsed

\* makeOpenAIRequest is not being exercised
RequestIdle == attempt = 0 /\ sent = <<>> /\ request = "idle"

\* searchTrials is not being exercised
NoCondition == [name |-> "undefined", onco |-> FALSE, len |-> 0]

SearchIdle ==
    /\ conditions = <<>>
    /\ prioritizedConditions = <<>>
    /\ primaryCondition = NoCondition
    /\ queries = <<>>
    /\ search = "idle"
    /\ found = <<>>

\* no MatchingFlow component is mounted
ClientIdle ==
    /\ wire = <<>>
    /\ received = 0
    /\ buffer = <<>>
    /\ dispatched = <<>>
    /\ timers = 0
    /\ onCompleteCalls = 0
    /\ onErrorCalls = 0

\* what an earlier, finished run left for a patient
PriorDoc(p, t, score) ==
    [patientId |-> p, trialId |-> t, confidenceScore |-> score,
     reasoning |-> ModelReasoning, createdAt |-> BeforeRuns]

\* an earlier run left one match for p1; p2 has never been matched
InitStores == {{PriorDoc("p1", 1, 85)}}

\* startupTasks: ingestTrials() stored the registry's list
InitTrialStores == {SeqRange(1, MaxTrials)}

NoRuns(idle) ==
    /\ pc = [r \in Runs |-> IF r \in idle THEN "idle" ELSE "done"]
    /\ mode = [r \in Runs |-> "none"]
    /\ patientId = [r \in Runs |-> "none"]
    /\ aborted = [r \in Runs |-> FALSE]
    /\ studies = [r \in Runs |-> <<>>]
    /\ trials = [r \in Runs |-> <<>>]
    /\ i = [r \in Runs |-> 0]
    /\ call = [r \in Runs |-> <<>>]
    /\ results = [r \in Runs |-> <<>>]
    /\ validMatches = [r \in Runs |-> <<>>]
    /\ events = [r \in Runs |-> <<>>]
    /\ outcome = [r \in Runs |-> "none"]
    /\ retrieved = [r \in Runs |-> "none"]

Init ==
    /\ matches \in InitStores
    /\ trialsStore \in InitTrialStores
    /\ ClientIdle
    /\ NoRuns(Runs)
    /\ ParserIdle
    /\ RequestIdle
    /\ SearchIdle

\* evaluateTrialMatch, as the scoring passes see it
Returned(score, reasoning) == [st |-> "ok", score |-> score, reasoning |-> reasoning]
Threw == [st |-> "failed", score |-> 0, reasoning |-> ""]

\* the outcomes handed to the concurrent handlers of Spec: a throw (score 0,
\* below the threshold), the threshold itself, and a score above it
EvalOutcomes == {Threw, Returned(MinScore, ModelReasoning), Returned(85, ModelReasoning)}

\* requests are numbered in the order they arrive
Earlier(r) == IF r = "r2" THEN {"r1"} ELSE {}
Arrives(r) == \A q \in Earlier(r) : pc[q] # "idle"

Next ==
    \E r \in Runs :
        \/ \E m \in {"stream", "batch"}, p \in {"p1", "ghost"} :
                Arrives(r) /\ StartRun(r, m, p)
        \/ ClearTrials(r)
        \/ GetAllTrials(r)
        \/ \E resp \in RegistryResponses : SearchTrials(r, resp)
        \/ UpsertNext(r)
        \/ Dispatch(r)
        \/ \E k \in 1..MaxTrials, out \in EvalOutcomes : Settle(r, k, out)
        \/ DeleteStep(r)
        \/ InsertStep(r)
        \/ Notify(r)

Spec == Init /\ [][Next]_vars

(***************************************************************************)
(* One streaming or batch request on its own, with a client that may go    *)
(* away at any moment.                                                     *)
(***************************************************************************)
InitSingle ==
    /\ matches \in InitStores
    /\ trialsStore \in InitTrialStores
    /\ ClientIdle
    /\ NoRuns({"r1"})
    /\ ParserIdle
    /\ RequestIdle
    /\ SearchIdle

NextSingle ==
    \/ \E m \in {"stream", "batch"}, p \in {"p1", "ghost"} : StartRun("r1", m, p)
    \/ ClearTrials("r1")
    \/ GetAllTrials("r1")
    \/ \E resp \in RegistryResponses : SearchTrials("r1", resp)
    \/ UpsertNext("r1")
    \/ Dispatch("r1")
    \/ \E k \in 1..MaxTrials, out \in EvalOutcomes : Settle("r1", k, out)
    \/ DeleteStep("r1")
    \/ InsertStep("r1")
    \/ Notify("r1")
    \/ Disconnect("r1")

SpecSingle == InitSingle /\ [][NextSingle]_vars

(***************************************************************************)
(* One scoring pass over 1..MaxCandidates candidates, in either mode, and  *)
(* the rest of its handler.                                                *)
(***************************************************************************)
ScoringOutcomes ==
    {Threw, Returned(NaN, UndefinedReasoning), Returned(39, ModelReasoning),
     Returned(85, ModelReasoning)}

InitScoring ==
    /\ matches \in InitStores
    /\ trialsStore \in InitTrialStores
    /\ ClientIdle
    /\ \E m \in {"stream", "batch"}, n \in 1..MaxCandidates :
          /\ pc = [r \in Runs |-> IF r = "r1" THEN "dispatch" ELSE "done"]
          /\ mode = [r \in Runs |-> IF r = "r1" THEN m ELSE "none"]
          /\ patientId = [r \in Runs |-> IF r = "r1" THEN "p1" ELSE "none"]
          /\ trials = [r \in Runs |-> IF r = "r1" THEN SeqRange(1, n) ELSE <<>>]
          /\ call = [r \in Runs |-> IF r = "r1" THEN [k \in 1..n |-> NoCall] ELSE <<>>]
    /\ aborted = [r \in Runs |-> FALSE]
    /\ studies = [r \in Runs |-> <<>>]
    /\ i = [r \in Runs |-> 0]
    /\ results = [r \in Runs |-> <<>>]
    /\ validMatches = [r \in Runs |-> <<>>]
    /\ events = [r \in Runs |-> <<>>]
    /\ outcome = [r \in Runs |-> "none"]
    /\ retrieved = [r \in Runs |-> "found"]
    /\ ParserIdle
    /\ RequestIdle
    /\ SearchIdle

NextScoring ==
    \/ Dispatch("r1")
    \/ \E k \in 1..MaxCandidates, out \in ScoringOutcomes : Settle("r1", k, out)
    \/ DeleteStep("r1")
    \/ InsertStep("r1")
    \/ Notify("r1")

SpecScoring == InitScoring /\ [][NextScoring]_vars

(***************************************************************************)
(* parseMatchResponse over the contents a reasoning service can send.      *)
(***************************************************************************)
\* JSON numbers in tenths: -5, -0.4, 0, 39.4, 39.5, 92, 100, 100.4, 137
ScoreTenths == {-50, -4, 0, 394, 395, 920, 1000, 1004, 1370}

ScoreFields ==
    {[kind |-> "number", tenths |-> t] : t \in ScoreTenths}
        \cup {[kind |-> "numstring", tenths |-> 850]}
        \cup {[kind |-> k, tenths |-> 0] : k \in {"string", "null", "true", "missing"}}

Contents ==
    {[form |-> f, score |-> s, reasoning |-> g] :
        f \in {"json", "embedded"}, s \in ScoreFields,
        g \in {"string", "missing", "number"}}
        \cup {[form |-> f, score |-> [kind |-> "missing", tenths |-> 0],
               reasoning |-> "missing"] : f \in {"jsonOther", "embeddedBad", "text"}}

InitParse ==
    /\ matches \in InitStores
    /\ trialsStore \in InitTrialStores
    /\ ClientIdle
    /\ NoRuns({})
    /\ content \in Contents
    /\ parsed = NotParsed
    /\ RequestIdle
    /\ SearchIdle

NextParse == Parse

SpecParse == InitParse /\ [][NextParse]_vars

(***************************************************************************)
(* The reasoning-service client: makeOpenAIRequest, one call of it.  Each  *)
(* fetch is kept in `sent` with the answer it got and the delay slept      *)
(* after it.                                                               *)
(***************************************************************************)
MAX_RETRIES == 3
BASE_DELAY_MS == 1000

\* the default parameter with one retry too many
RetriesOffByOne == MAX_RETRIES + 1

\* retries = MAX_RETRIES, the default parameter every caller leaves alone
Retries == MAX_RETRIES

\* what one fetch can come to: a 200 with a JSON body, a 429 (without
\* Retry-After, with Retry-After in seconds, with Retry-After as a date), a
\* non-2xx status whose body does or does not hold the text "fetch", a
\* rejected fetch whose message does or does not hold "fetch", and a 200
\* whose body response.json() cannot parse
FetchAnswers ==
    {[kind |-> "ok", retryAfter |-> "none", fetchInMessage |-> FALSE]}
        \cup {[kind |-> "rateLimited", retryAfter |-> h, fetchInMessage |-> FALSE] :
                h \in {"none", "seconds", "date"}}
        \cup {[kind |-> k, retryAfter |-> "none", fetchInMessage |-> b] :
                k \in {"httpError", "network"}, b \in BOOLEAN}
        \cup {[kind |-> "badBody", retryAfter |-> "none", fetchInMessage |-> FALSE]}

\* the seconds a Retry-After header of the model asks for
RetryAfterSeconds == 2

\* retryAfter ? parseInt(retryAfter, 10) * 1000 : BASE_DELAY_MS * Math.pow(2, attempt)
RateLimitDelay(ans, a) ==
    CASE ans.retryAfter = "seconds" -> RetryAfterSeconds * 1000
      [] ans.retryAfter = "date" -> NaN
      [] OTHER -> BASE_DELAY_MS * 2^a

\* BASE_DELAY_MS * Math.pow(2, attempt)
NetworkDelay(a) == BASE_DELAY_MS * 2^a

\* the catch's test: error instanceof Error && error.message.includes("fetch")
IsFetchError(ans) == ans.kind \in {"httpError", "network"} /\ ans.fetchInMessage

\* whether the loop goes round again after this answer
Retried(ans, a) ==
    /\ a < Retries
    /\ ans.kind = "rateLimited" \/ IsFetchError(ans)

DelayAfter(ans, a) ==
    IF ~Retried(ans, a) THEN 0
    ELSE IF ans.kind = "rateLimited" THEN RateLimitDelay(ans, a) ELSE NetworkDelay(a)

\* one turn of the loop: await fetch(...), then return, throw, or sleep
Fetch(ans) ==
    /\ request = "fetch"
    /\ sent' = Append(sent, [kind |-> ans.kind, attempt |-> attempt,
                             delay |-> DelayAfter(ans, attempt)])
    /\ request' = IF ans.kind = "ok" THEN "returned"
                  ELSE IF Retried(ans, attempt) THEN "sleep" ELSE "thrown"
    /\ UNCHANGED <<matches, trialsStore, runVars, parseVars, searchVars, clientVars,
                   attempt>>

\* await sleep(delayMs); continue: attempt++ and the loop's test
Backoff ==
    /\ request = "sleep"
    /\ attempt' = attempt + 1
    /\ request' = IF attempt + 1 <= Retries THEN "fetch" ELSE "thrown"
    /\ UNCHANGED <<matches, trialsStore, runVars, parseVars, searchVars, clientVars,
                   sent>>

InitRequest ==
    /\ matches \in InitStores
    /\ trialsStore \in InitTrialStores
    /\ ClientIdle
    /\ NoRuns({})
    /\ ParserIdle
    /\ attempt = 0
    /\ sent = <<>>
    /\ request = "fetch"
    /\ SearchIdle

NextRequest ==
    \/ \E ans \in FetchAnswers : Fetch(ans)
    \/ Backoff

SpecRequest == InitRequest /\ [][NextRequest]_vars

(***************************************************************************)
(* One scoring pass over 1..MaxRanked candidates, in either mode, whose    *)
(* scores come from what the reasoning service can make evaluateTrialMatch *)
(* return: a failure, a reply whose score parses to NaN, and numbers       *)
(* around and above the threshold.                                         *)
(***************************************************************************)
MaxRanked == 4

RankingOutcomes ==
    {Returned(NaN, UndefinedReasoning), Returned(39, ModelReasoning),
     Returned(50, ModelReasoning), Returned(60, ModelReasoning),
     Returned(90, ModelReasoning)}

InitRanking ==
    /\ matches \in InitStores
    /\ trialsStore \in InitTrialStores
    /\ ClientIdle
    /\ \E m \in {"stream", "batch"}, n \in 1..MaxRanked :
          /\ pc = [r \in Runs |-> IF r = "r1" THEN "dispatch" ELSE "done"]
          /\ mode = [r \in Runs |-> IF r = "r1" THEN m ELSE "none"]
          /\ patientId = [r \in Runs |-> IF r = "r1" THEN "p1" ELSE "none"]
          /\ trials = [r \in Runs |-> IF r = "r1" THEN SeqRange(1, n) ELSE <<>>]
          /\ call = [r \in Runs |-> IF r = "r1" THEN [k \in 1..n |-> NoCall] ELSE <<>>]
    /\ aborted = [r \in Runs |-> FALSE]
    /\ studies = [r \in Runs |-> <<>>]
    /\ i = [r \in Runs |-> 0]
    /\ results = [r \in Runs |-> <<>>]
    /\ validMatches = [r \in Runs |-> <<>>]
    /\ events = [r \in Runs |-> <<>>]
    /\ outcome = [r \in Runs |-> "none"]
    /\ retrieved = [r \in Runs |-> "found"]
    /\ ParserIdle
    /\ RequestIdle
    /\ SearchIdle

NextRanking ==
    \/ Dispatch("r1")
    \/ \E k \in 1..MaxRanked, out \in RankingOutcomes : Settle("r1", k, out)

SpecRanking == InitRanking /\ [][NextRanking]_vars

(***************************************************************************)
(* Two requests for p1 in immediate succession: the second arrives when    *)
(* the first has returned.  The registry and the reasoning service are     *)
(* deterministic: the same query gets the same answer, the same trial the  *)
(* same score.  The trials collection starts as startupTasks leaves it,    *)
(* filled by ingestTrials(), the search with no conditions.                *)
(***************************************************************************)
\* the registry answers r2's search as it answered r1's
SameAnswer(r, resp) ==
    (r = "r2" /\ retrieved["r1"] # "none")
        => /\ resp.ok = (retrieved["r1"] # "failed")
           /\ resp.studies = studies["r1"]

\* the reasoning service scores a trial for r2 as it scored it for r1
SameScore(r, k, out) ==
    r = "r2" =>
        \A j \in 1..Len(trials["r1"]) :
            (trials["r1"][j] = trials["r2"][k] /\ Settled(call["r1"][j]))
                => out = call["r1"][j]

NextTwice ==
    \/ \E m \in {"stream", "batch"} : StartRun("r1", m, "p1")
    \/ \E m \in {"stream", "batch"} : pc["r1"] = "done" /\ StartRun("r2", m, "p1")
    \/ \E r \in Runs :
        \/ ClearTrials(r)
        \/ GetAllTrials(r)
        \/ \E resp \in RegistryResponses : SameAnswer(r, resp) /\ SearchTrials(r, resp)
        \/ UpsertNext(r)
        \/ Dispatch(r)
        \/ \E k \in 1..MaxTrials, out \in EvalOutcomes :
                Settle(r, k, out) /\ SameScore(r, k, out)
        \/ DeleteStep(r)
        \/ InsertStep(r)
        \/ Notify(r)

SpecTwice == Init /\ [][NextTwice]_vars

(***************************************************************************)
(* One request whose external calls may never be answered.  The fetch of   *)
(* searchTrials and the fetch of makeOpenAIRequest are made without a      *)
(* signal or timeout, and the handlers set no deadline: a call the other   *)
(* side never answers stays pending, and the model has no step that ends   *)
(* it.  Every step the handler can take is taken (weak fairness).          *)
(***************************************************************************)
Hung == [st |-> "hung", score |-> 0, reasoning |-> ""]

\* the reasoning service never answers call k of r
HangCall(r, k) ==
    /\ pc[r] = "settle"
    /\ k \in InFlightOf(r)
    /\ call' = [call EXCEPT ![r][k] = Hung]
    /\ UNCHANGED <<matches, trialsStore, pc, mode, patientId, aborted, studies, trials,
                   i, results, validMatches, events, outcome, retrieved, harnessVars>>

\* the registry never answers r's search
HangSearch(r) ==
    /\ pc[r] = "searchTrials"
    /\ retrieved[r] = "none"
    /\ retrieved' = [retrieved EXCEPT ![r] = "hung"]
    /\ UNCHANGED <<matches, trialsStore, pc, mode, patientId, aborted, studies, trials,
                   i, call, results, validMatches, events, outcome, harnessVars>>

NextHang ==
    \/ \E m \in {"stream", "batch"}, p \in {"p1", "ghost"} : StartRun("r1", m, p)
    \/ ClearTrials("r1")
    \/ GetAllTrials("r1")
    \/ \E resp \in RegistryResponses :
            retrieved["r1"] # "hung" /\ SearchTrials("r1", resp)
    \/ HangSearch("r1")
    \/ UpsertNext("r1")
    \/ Dispatch("r1")
    \/ \E k \in 1..MaxTrials, out \in EvalOutcomes : Settle("r1", k, out)
    \/ \E k \in 1..MaxTrials : HangCall("r1", k)
    \/ DeleteStep("r1")
    \/ InsertStep("r1")
    \/ Notify("r1")

SpecHang == InitSingle /\ [][NextHang]_vars /\ WF_vars(NextHang)

(***************************************************************************)
(* The registry search: searchTrials, one call of it.  A condition is kept *)
(* by what searchTrials reads of it: its text, whether the oncology        *)
(* pattern matches it, its length once trimmed, and the blanks around it.  *)
(* A registry answer is a list of studies (nctIds), a non-2xx status, or a *)
(* fetch that rejects.                                                     *)
(***************************************************************************)
MaxConditions == 3

\* searchTrials(conditions, 30): every caller passes 30
MaxResults == 30
\* data.studies.length >= 10: the primary query returned enough
EnoughResults == 10

Terms ==
    {[name |-> "Papillary Thyroid Carcinoma", onco |-> TRUE, len |-> 27, pad |-> 0],
     [name |-> "Hashimoto's Thyroiditis", onco |-> FALSE, len |-> 23, pad |-> 0],
     [name |-> "Lung Cancer", onco |-> TRUE, len |-> 11, pad |-> 0],
     [name |-> "Asthma", onco |-> FALSE, len |-> 6, pad |-> 2],
     [name |-> "", onco |-> FALSE, len |-> 0, pad |-> 1]}

\* the ordered, de-duplicated lists of up to MaxConditions conditions
ConditionLists ==
    {s \in UNION {[1..n -> Terms] : n \in 0..MaxConditions} :
        \A j, k \in 1..Len(s) : j # k => s[j] # s[k]}

\* c.length: the text and the blanks around it
StrLength(c) == c.len + c.pad

\* c.trim()
Trim(c) == [c EXCEPT !.pad = 0]

\* /cancer|carcinoma|tumor|lymphoma|leukemia|melanoma|sarcoma/i.test(c)
IsCancer(c) == c.onco

\* the sort's comparator
ComparePriority(a, b) ==
    IF IsCancer(a) /\ ~IsCancer(b) THEN -1
    ELSE IF ~IsCancer(a) /\ IsCancer(b) THEN 1
    ELSE StrLength(b) - StrLength(a)

\* .sort(comparator): the comparator is consistent, the order is the stable one
RECURSIVE InsertByPriority(_, _)
InsertByPriority(sq, x) ==
    IF sq = <<>> THEN <<x>>
    ELSE IF ComparePriority(x, sq[Len(sq)]) < 0
         THEN Append(InsertByPriority(SubSeq(sq, 1, Len(sq) - 1), x), sq[Len(sq)])
         ELSE Append(sq, x)

RECURSIVE SortByPriority(_)
SortByPriority(sq) ==
    IF sq = <<>> THEN <<>>
    ELSE InsertByPriority(SortByPriority(SubSeq(sq, 1, Len(sq) - 1)), sq[Len(sq)])

\* conditions.map(c => c.trim()).filter(c => c.length > 0).sort(...)
Prioritize(conds) ==
    SortByPriority(SelectSeq([j \in 1..Len(conds) |-> Trim(conds[j])],
                             LAMBDA c : StrLength(c) > 0))

\* the first of the top three conditions of the expansion query
TopThree(sq) == SubSeq(sq, 1, Min2(3, Len(sq)))

RegistryAnswers ==
    {[kind |-> "httpError", studies |-> <<>>], [kind |-> "transport", studies |-> <<>>]}
        \cup {[kind |-> "ok", studies |-> SeqRange(1, n)] :
                n \in {0, MaxTrials, EnoughResults}}

ExpansionAnswers ==
    {[kind |-> "httpError", studies |-> <<>>], [kind |-> "transport", studies |-> <<>>]}
        \cup {[kind |-> "ok", studies |-> SeqRange(2, n)] :
                n \in {1, MaxTrials + 1, MaxResults + 1}}

\* the two lists joined without the filter on primaryIds
CombinedNoFilter(primary, expanded) ==
    SubSeq(primary \o expanded, 1, Min2(MaxResults, Len(primary) + Len(expanded)))

\* [...primary, ...expanded.filter(s => !primaryIds.has(nctId))].slice(0, maxResults)
Combined(primary, expanded) ==
    LET all == primary \o SelectSeq(expanded, LAMBDA t : t \notin Range(primary))
    IN  SubSeq(all, 1, Min2(MaxResults, Len(all)))

\* lines 259-314: the empty list goes to the query without conditions, any
\* other list is cleaned and sorted and its first element taken
Plan ==
    /\ search = "start"
    /\ IF conditions = <<>>
       THEN /\ search' = "general"
            /\ UNCHANGED <<prioritizedConditions, primaryCondition>>
       ELSE /\ search' = "primary"
            /\ prioritizedConditions' = Prioritize(conditions)
            /\ primaryCondition' = IF Prioritize(conditions) = <<>> THEN NoCondition
                                   ELSE Prioritize(conditions)[1]
    /\ UNCHANGED <<matches, trialsStore, runVars, parseVars, requestVars, clientVars,
                   conditions, queries, found>>

\* lines 283-293: the query for recruiting studies, outside any try
GeneralQuery(ans) ==
    /\ search = "general"
    /\ queries' = Append(queries, [query |-> "general", terms |-> <<>>,
                                   answer |-> ans.kind, studies |-> ans.studies])
    /\ search' = IF ans.kind = "ok" THEN "returned" ELSE "thrown"
    /\ found' = ans.studies
    /\ UNCHANGED <<matches, trialsStore, runVars, parseVars, requestVars, clientVars,
                   conditions, prioritizedConditions, primaryCondition>>

\* lines 340-356: the primary query
PrimaryQuery(ans) ==
    /\ search = "primary"
    /\ queries' = Append(queries, [query |-> "primary", terms |-> <<primaryCondition>>,
                                   answer |-> ans.kind, studies |-> ans.studies])
    /\ found' = ans.studies
    /\ search' = IF ans.kind # "ok" THEN "thrown"
                 ELSE IF Len(ans.studies) >= EnoughResults THEN "returned"
                 ELSE IF Len(prioritizedConditions) > 1 /\ Len(ans.studies) < MaxResults
                      THEN "expansion"
                      ELSE "returned"
    /\ UNCHANGED <<matches, trialsStore, runVars, parseVars, requestVars, clientVars,
                   conditions, prioritizedConditions, primaryCondition>>

\* lines 359-410: the expansion query; a non-2xx answer falls through to
\* `return data.studies`, a rejected fetch goes to the catch, which rethrows
ExpansionQuery(ans) ==
    /\ search = "expansion"
    /\ queries' = Append(queries, [query |-> "expansion",
                                   terms |-> TopThree(prioritizedConditions),
                                   answer |-> ans.kind, studies |-> ans.studies])
    /\ found' = IF ans.kind = "ok" THEN Combined(found, ans.studies) ELSE found
    /\ search' = IF ans.kind = "transport" THEN "thrown" ELSE "returned"
    /\ UNCHANGED <<matches, trialsStore, runVars, parseVars, requestVars, clientVars,
                   conditions, prioritizedConditions, primaryCondition>>

InitSearch ==
    /\ matches \in InitStores
    /\ trialsStore \in InitTrialStores
    /\ ClientIdle
    /\ NoRuns({})
    /\ ParserIdle
    /\ RequestIdle
    /\ conditions \in ConditionLists
    /\ prioritizedConditions = <<>>
    /\ primaryCondition = NoCondition
    /\ queries = <<>>
    /\ search = "start"
    /\ found = <<>>

NextSearch ==
    \/ Plan
    \/ \E ans \in RegistryAnswers : GeneralQuery(ans)
    \/ \E ans \in RegistryAnswers : PrimaryQuery(ans)
    \/ \E ans \in ExpansionAnswers : ExpansionQuery(ans)

SpecSearch == InitSearch /\ [][NextSearch]_vars

(***************************************************************************)
(* Two requests for two patients with different conditions, r1 for p1 and  *)
(* r2 for p2, in either mode and overlapping in any way.  The registry     *)
(* answers a search by its conditions: p1's conditions find one list, p2's *)
(* another, and the search without conditions (ingestTrials) the general   *)
(* list of recruiting studies.                                             *)
(***************************************************************************)
\* searchTrials(uniqueConditions, 30) for the conditions of patient p
TrialsFor(p) == IF p = "p1" THEN SeqRange(1, MaxTrials - 1) ELSE <<MaxTrials>>

\* searchTrials([], 30): the query for recruiting studies
GeneralTrials == SeqRange(1, MaxTrials)

\* stream: ingestTrialsWithProgress(firecrawlProgress, uniqueConditions);
\* batch: ingestTrials(), which searches without conditions
AnswerFor(r) ==
    [ok |-> TRUE,
     studies |-> IF mode[r] = "stream" THEN TrialsFor(patientId[r]) ELSE GeneralTrials]

RegistryDown == [ok |-> FALSE, studies |-> <<>>]

PatientOf(r) == IF r = "r1" THEN "p1" ELSE "p2"

NextPatients ==
    \E r \in Runs :
        \/ \E m \in {"stream", "batch"} : Arrives(r) /\ StartRun(r, m, PatientOf(r))
        \/ ClearTrials(r)
        \/ GetAllTrials(r)
        \/ \E resp \in {AnswerFor(r), RegistryDown} : SearchTrials(r, resp)
        \/ UpsertNext(r)
        \/ Dispatch(r)
        \/ \E k \in 1..MaxTrials, out \in EvalOutcomes : Settle(r, k, out)
        \/ DeleteStep(r)
        \/ InsertStep(r)
        \/ Notify(r)

SpecPatients == Init /\ [][NextPatients]_vars

(***************************************************************************)
(* One scoring pass whose progress callback may reject.  In the            *)
(* incremental pass the matching_trial event of the try block is awaited   *)
(* after results.push(result), inside the try: when onProgress rejects,    *)
(* the catch block takes it as a failed evaluation, pushes its own result  *)
(* for the same trial and awaits onProgress again, outside any try.        *)
(***************************************************************************)
DeliveryError == "event not delivered"

\* evaluateTrialMatch settled with `out`, and the onProgress that follows
\* rejects; `again` says whether the catch block's onProgress is delivered
SettleUndelivered(r, k, out, again) ==
    /\ pc[r] = "settle"
    /\ mode[r] = "stream"
    /\ k \in InFlightOf(r)
    /\ LET n == Len(trials[r])
           failed == FailedResult(r, trials[r][k])
           pushed == IF out.st = "ok"
                     THEN results[r] \o <<ScoredResult(r, trials[r][k], out), failed>>
                     ELSE Append(results[r], failed)
           caught == out.st = "ok" /\ again
       IN  /\ call' = [call EXCEPT ![r][k] = out]
           /\ IF caught
              THEN /\ i' = [i EXCEPT ![r] = k]
                   /\ Emit(r, <<MatchingTrial(failed, k, n)>>
                              \o (IF k = n
                                  THEN <<Ev("matching_complete", 0, 0, "", 0,
                                            Len(FilterValid(pushed)))>>
                                  ELSE <<>>))
                   /\ IF k = n
                      THEN AfterPass(r, pushed)
                      ELSE /\ results' = [results EXCEPT ![r] = pushed]
                           /\ pc' = [pc EXCEPT ![r] = "dispatch"]
                           /\ UNCHANGED validMatches
                   /\ UNCHANGED outcome
              ELSE /\ results' = [results EXCEPT ![r] = pushed]
                   /\ Finish(r, "failed", <<ErrorEvent(DeliveryError)>>)
                   /\ UNCHANGED <<i, validMatches>>
    /\ UNCHANGED <<matches, trialsStore, mode, patientId, aborted, studies, trials,
                   retrieved, harnessVars>>

NextProgress ==
    \/ Dispatch("r1")
    \/ \E k \in 1..MaxRanked, out \in EvalOutcomes : Settle("r1", k, out)
    \/ \E k \in 1..MaxRanked, out \in EvalOutcomes, again \in BOOLEAN :
            SettleUndelivered("r1", k, out, again)
    \/ DeleteStep("r1")
    \/ InsertStep("r1")
    \/ Notify("r1")

SpecProgress == InitRanking /\ [][NextProgress]_vars

(***************************************************************************)
(* One request whose insertMany may be rejected by the database (a lost    *)
(* connection, a write error): the deleteMany before it is a separate      *)
(* await outside any transaction, and the handler's catch only reports.    *)
(***************************************************************************)
WriteError == "MongoNetworkError"

\* await matchesCollection.insertMany(documents) rejects after the first n
\* documents were written; the handler's catch reports the failure
InsertFails(r, n) ==
    /\ pc[r] = "insertMany"
    /\ n < Len(validMatches[r])
    /\ matches' = InsertMany(matches, SubSeq(validMatches[r], 1, n)).store
    /\ Finish(r, "failed", <<ErrorEvent(WriteError)>>)
    /\ UNCHANGED <<trialsStore, mode, patientId, aborted, studies, trials, i, call,
                   results, validMatches, retrieved, harnessVars>>

NextPersist ==
    \/ \E m \in {"stream", "batch"}, p \in {"p1", "ghost"} : StartRun("r1", m, p)
    \/ ClearTrials("r1")
    \/ GetAllTrials("r1")
    \/ \E resp \in RegistryResponses : SearchTrials("r1", resp)
    \/ UpsertNext("r1")
    \/ Dispatch("r1")
    \/ \E k \in 1..MaxTrials, out \in EvalOutcomes : Settle("r1", k, out)
    \/ DeleteStep("r1")
    \/ InsertStep("r1")
    \/ \E n \in 0..(MaxTrials - 1) : InsertFails("r1", n)
    \/ Notify("r1")

SpecPersist == InitSingle /\ [][NextPersist]_vars

(***************************************************************************)
(* The web client: MatchingFlow's startMatching and handleSSEEvent.  The   *)
(* response body is the server's events, each written by writeSSE as the   *)
(* line "event: <name>", the line "data: <json>" and an empty line.  A     *)
(* line is kept in two halves, so that a chunk of the body can end inside  *)
(* a line as well as between two lines; a newline is one symbol.           *)
(***************************************************************************)
Newline == [kind |-> "nl", half |-> 0, n |-> 0, type |-> ""]

\* stream.writeSSE({ data, event }) for the k-th event of the stream
Message(k, type) ==
    <<[kind |-> "event", half |-> 1, n |-> k, type |-> type],
      [kind |-> "event", half |-> 2, n |-> k, type |-> type],
      Newline,
      [kind |-> "data", half |-> 1, n |-> k, type |-> type],
      [kind |-> "data", half |-> 2, n |-> k, type |-> type],
      Newline,
      Newline>>

MessageLength == Len(Message(1, "progress"))

\* the response body of a stream of events
RECURSIVE Encode(_)
Encode(evs) ==
    IF evs = <<>> THEN <<>>
    ELSE Encode(SubSeq(evs, 1, Len(evs) - 1)) \o Message(Len(evs), evs[Len(evs)])

\* buffer.split("\n")
RECURSIVE SplitLines(_)
SplitLines(sq) ==
    IF \A j \in 1..Len(sq) : sq[j] # Newline THEN <<sq>>
    ELSE LET j == CHOOSE j \in 1..Len(sq) :
                      sq[j] = Newline /\ \A h \in 1..(j - 1) : sq[h] # Newline
         IN  <<SubSeq(sq, 1, j - 1)>> \o SplitLines(SubSeq(sq, j + 1, Len(sq)))

\* line.startsWith("event:") and line.startsWith("data:")
StartsWith(line, kind) == line # <<>> /\ line[1].kind = kind /\ line[1].half = 1

\* the whole of a line was received
WholeLine(line) == Len(line) = 2 /\ line[2].half = 2

\* line.slice(6).trim()
EventName(line) == IF WholeLine(line) THEN line[1].type ELSE "truncated"

\* the for loop over `lines`: an event line sets currentEvent, a data line
\* whose JSON parses calls handleSSEEvent(currentEvent, data)
RECURSIVE HandleLines(_, _, _)
HandleLines(lines, currentEvent, calls) ==
    IF lines = <<>> THEN calls
    ELSE LET line == Head(lines)
         IN  IF StartsWith(line, "event")
             THEN HandleLines(Tail(lines), EventName(line), calls)
             ELSE IF StartsWith(line, "data") /\ WholeLine(line)
             THEN HandleLines(Tail(lines), currentEvent,
                              Append(calls, [event |-> currentEvent, data |-> line[1].n]))
             ELSE HandleLines(Tail(lines), currentEvent, calls)

\* how many of the calls are for one of the event names
CountOf(calls, names) == Cardinality({j \in 1..Len(calls) : calls[j].event \in names})

\* one turn of the while loop: reader.read() hands over the next n symbols
\* of the body; buffer += chunk, split, lines.pop(), `let currentEvent = ""`
\* and the for loop.  handleSSEEvent sets a timer that calls onComplete for
\* matching_complete and for complete, and calls onError for error
ReadChunk(n) ==
    /\ received + n <= Len(Encode(wire))
    /\ LET chunk == SubSeq(Encode(wire), received + 1, received + n)
           lines == SplitLines(buffer \o chunk)
           calls == HandleLines(SubSeq(lines, 1, Len(lines) - 1), "", <<>>)
       IN  /\ received' = received + n
           /\ buffer' = lines[Len(lines)]
           /\ dispatched' = dispatched \o calls
           /\ timers' = timers + CountOf(calls, {"matching_complete", "complete"})
           /\ onErrorCalls' = onErrorCalls + CountOf(calls, {"error"})
    /\ UNCHANGED <<matches, trialsStore, runVars, parseVars, requestVars, searchVars,
                   wire, onCompleteCalls>>

\* setTimeout(() => { onComplete(data.matchCount) }, 2000) runs
TimerFires ==
    /\ timers > 0
    /\ timers' = timers - 1
    /\ onCompleteCalls' = onCompleteCalls + 1
    /\ UNCHANGED <<matches, trialsStore, runVars, parseVars, requestVars, searchVars,
                   wire, received, buffer, dispatched, onErrorCalls>>

\* most trials of a run whose stream the client reads in SpecClient
MaxStreamed == 4

Repeat(x, n) == [j \in 1..n |-> x]

\* the events of a streaming run that reached the end of its scoring pass
\* over n trials
ScoredStream(n) ==
    <<"progress", "firecrawl_start", "firecrawl_found">>
        \o Repeat("firecrawl_trial", n)
        \o <<"firecrawl_complete", "matching_start">>
        \o Repeat("matching_trial", n)
        \o <<"matching_complete">>

\* the event sequences POST /api/matches/stream writes: patient not found,
\* registry failure, no trials, and a scored run that ends with complete or,
\* when its insertMany fails, with error
ServerStreams ==
    {<<"progress", "error">>,
     <<"progress", "firecrawl_start", "error">>,
     <<"progress", "firecrawl_start", "firecrawl_found", "firecrawl_complete", "error">>}
        \cup {ScoredStream(n) \o end :
                n \in 1..MaxStreamed, end \in {<<"progress", "complete">>, <<"error">>}}

ClientMounted ==
    /\ received = 0
    /\ buffer = <<>>
    /\ dispatched = <<>>
    /\ timers = 0
    /\ onCompleteCalls = 0
    /\ onErrorCalls = 0

\* one MatchingFlow reading the stream of one run, the body arriving one or
\* two whole messages at a time
InitClient ==
    /\ matches \in InitStores
    /\ trialsStore \in InitTrialStores
    /\ NoRuns({})
    /\ ParserIdle
    /\ RequestIdle
    /\ SearchIdle
    /\ wire \in ServerStreams
    /\ ClientMounted

NextClient ==
    \/ \E m \in 1..2 : ReadChunk(m * MessageLength)
    \/ TimerFires

SpecClient == InitClient /\ [][NextClient]_vars

(***************************************************************************)
(* The client's reader over a short stream cut into chunks at any symbol.  *)
(***************************************************************************)
MaxEvents == 2

ShortStreams ==
    UNION {[1..n -> {"firecrawl_trial", "matching_trial", "complete"}] : n \in 1..MaxEvents}

InitReader ==
    /\ matches \in InitStores
    /\ trialsStore \in InitTrialStores
    /\ NoRuns({})
    /\ ParserIdle
    /\ RequestIdle
    /\ SearchIdle
    /\ wire \in ShortStreams
    /\ ClientMounted

NextReader ==
    \/ \E n \in 1..(MaxEvents * MessageLength) : ReadChunk(n)
    \/ TimerFires

SpecReader == InitReader /\ [][NextReader]_vars

(***************************************************************************)
(* Properties.                                                             *)
(***************************************************************************)
DocsOf(p) == {d \in matches : d.patientId = p}

NonIncreasing(seq) ==
    \A j \in 1..(Len(seq) - 1) : seq[j].confidenceScore >= seq[j + 1].confidenceScore

\* the scoring pass of r has returned
ScoringDone(r) == pc[r] \in {"deleteMany", "insertMany", "notify", "done"}


\* C1: two matching runs for the same patientId never interleave the delete
\* and insert steps of their replaces: no run of a patient is between its
\* delete and its insert while another run of that patient is.
C1_ReplacesNeverInterleave ==
    \A r1, r2 \in Runs :
        (r1 # r2 /\ patientId[r1] = patientId[r2])
            => ~(pc[r1] = "insertMany" /\ pc[r2] = "insertMany")

\* C2: a reader of a patient's matches sees the complete prior set or the
\* complete new set: whenever the list a reader would get changes, it changes
\* to the whole accepted set of a run for that patient.
C2_ReadersSeeCompleteSets ==
    [][\A p \in PatientIds :
          FindMatches(p)' # FindMatches(p)
              => \E r \in Runs : /\ patientId[r] = p
                                /\ FindMatches(p)' = SortDocs(Range(validMatches[r]))]_vars

\* C3: a streaming run whose caller disconnected before persistence never
\* takes its delete step (and so never its insert step).
C3_CancelledRunNeverWrites ==
    [][\A r \in Runs :
          (aborted[r] /\ pc[r] = "deleteMany") => pc'[r] = "deleteMany"]_vars

\* C4: a run that scored at least one candidate and accepted none leaves no
\* persisted match for its patient.
C4_EmptyAcceptedSetClears ==
    \A r \in Runs :
        (pc[r] = "done" /\ outcome[r] = "complete" /\ Len(trials[r]) > 0
            /\ validMatches[r] = <<>>)
            => DocsOf(patientId[r]) = {}

\* C5: a run whose retrieval succeeded with 0 trials ends without an error
\* event or error response, and its patient has no persisted match afterwards.
C5_NoCandidatesIsNotAnError ==
    \A r \in Runs :
        (pc[r] = "done" /\ retrieved[r] = "empty")
            => /\ outcome[r] = "complete"
               /\ \A j \in 1..Len(events[r]) : events[r][j].type # "error"
               /\ DocsOf(patientId[r]) = {}

\* C6: every persisted MatchResult has confidenceScore >= 40, and the list
\* GET /api/matches/:patientId returns is in non-increasing score order.
C6_PersistedAboveThresholdAndSorted ==
    /\ \A d \in matches : d.confidenceScore # NaN /\ d.confidenceScore >= 40
    /\ \A p \in PatientIds : NonIncreasing(FindMatches(p)) /\ NonIncreasing(GetMatches(p))

\* two runs have stored and cleared: the store holds two matches of different
\* scores written by a finished run, and a run dropped a result below 40
C6_Witness ==
    \E r, q \in Runs :
        /\ outcome[r] = "complete"
        /\ \E d, e \in matches :
              /\ d.createdAt = Now(r) /\ e.createdAt = Now(r)
              /\ d.confidenceScore > e.confidenceScore
        /\ Len(GetMatches(patientId[r])) = 2
        /\ \E j \in 1..Len(results[q]) : results[q][j].confidenceScore < 40

\* C7: every score parseMatchResponse returns is an integer in 0..100, on the
\* direct path and on the regex fallback.
C7_ScoreAlwaysInRange ==
    parsed.reasoning # "not parsed" => parsed.score \in 0..100

\* C8: a scoring failure never aborts the run: once pushed, the failed
\* candidate is in results with score 0 and the processing-error explanation,
\* the pass never stops short of a candidate, and when it has returned every
\* candidate has been scored and has its result.
C8_FailureNeverAborts ==
    \A r \in Runs :
        /\ \A k \in 1..Len(call[r]) :
              (call[r][k].st = "failed" /\ k <= i[r])
                  => \E j \in 1..Len(results[r]) :
                        /\ results[r][j].trialId = trials[r][k]
                        /\ results[r][j].confidenceScore = 0
                        /\ results[r][j].reasoning = EvalFailedMsg
        /\ pc[r] = "dispatch" => i[r] < Len(trials[r])
        /\ pc[r] = "settle" => InFlightOf(r) # {}
        /\ (\E k \in 1..Len(call[r]) : call[r][k].st = "failed")
              => outcome[r] \in {"none", "complete"}
        /\ ScoringDone(r)
              => /\ Len(results[r]) = Len(trials[r])
                 /\ \A k \in 1..Len(call[r]) : Settled(call[r][k])
                 /\ \A k \in 1..Len(trials[r]) :
                       \E j \in 1..Len(results[r]) : results[r][j].trialId = trials[r][k]

\* a finished run whose first candidate failed and whose last was scored
C8_Witness ==
    \E r \in Runs :
        /\ pc[r] = "done" /\ outcome[r] = "complete"
        /\ Len(trials[r]) >= 2
        /\ call[r][1].st = "failed"
        /\ call[r][Len(trials[r])].st = "ok"

TrialEvents(r) == SelectSeq(events[r], LAMBDA e : e.type = "matching_trial")

\* C9: in incremental mode the matching_trial events are one per settled
\* candidate, failed or not, in retrieval order, with index 1, 2, ... and
\* total N; when the pass has returned there are N of them.
C9_OneEventPerCandidateInOrder ==
    \A r \in Runs :
        mode[r] = "stream"
            => /\ Len(TrialEvents(r)) = Cardinality({k \in 1..Len(call[r]) : Settled(call[r][k])})
               /\ \A j \in 1..Len(TrialEvents(r)) :
                     /\ TrialEvents(r)[j].nctId = trials[r][j]
                     /\ TrialEvents(r)[j].index = j
                     /\ TrialEvents(r)[j].total = Len(trials[r])
                     /\ Settled(call[r][j])
               /\ ScoringDone(r) => Len(TrialEvents(r)) = Len(trials[r])

\* a streaming pass over at least three candidates has returned, one of its
\* calls failed and one succeeded
C9_Witness ==
    \E r \in Runs :
        /\ mode[r] = "stream" /\ ScoringDone(r)
        /\ Len(TrialEvents(r)) >= 3
        /\ \E k \in 1..Len(call[r]) : call[r][k].st = "failed"
        /\ \E k \in 1..Len(call[r]) : call[r][k].st = "ok"

\* the group of candidate k in batch mode: 1..5 is group 0, 6..10 group 1
GroupOf(k) == (k - 1) \div 5

\* C10: at most 5 calls in flight in batch mode and at most 1 in incremental
\* mode, and a call is in flight only when every call of the earlier groups
\* (batch) or every earlier call (incremental) has settled.
C10_InFlightWithinLimit ==
    \A r \in Runs :
        /\ Cardinality(InFlightOf(r)) <= (IF mode[r] = "batch" THEN 5 ELSE 1)
        /\ \A k \in InFlightOf(r) : \A j \in 1..Len(call[r]) :
              (IF mode[r] = "batch" THEN GroupOf(j) < GroupOf(k) ELSE j < k)
                  => Settled(call[r][j])

\* a batch run with its second group in flight
C10_Witness ==
    \E r \in Runs :
        /\ mode[r] = "batch"
        /\ \E k \in InFlightOf(r) : k > 5
        /\ \A j \in 1..5 : Settled(call[r][j])

\* C11: one call of makeOpenAIRequest makes at most 4 fetches, 1 initial and
\* at most 3 retries whatever mix of 429 answers and transport failures it
\* meets, and once the fourth fetch has not succeeded the call has thrown.
C11_AtMostFourRequests ==
    /\ Len(sent) <= 4
    /\ attempt <= 3
    /\ \A j \in 1..Len(sent) : sent[j].attempt = j - 1
    /\ Len(sent) = 4
          => /\ request \in {"returned", "thrown"}
             /\ sent[4].kind # "ok" => request = "thrown"

\* the budget used up by a mix of rate limits and transport failures
C11_Witness ==
    /\ request = "thrown"
    /\ Len(sent) = 4
    /\ \E j \in 1..3 : sent[j].kind = "rateLimited"
    /\ \E j \in 1..3 : sent[j].kind = "network"

\* the score evaluateTrialMatch gave candidate k of run r (0 when it threw)
ScoreGiven(r, k) == IF call[r][k].st = "ok" THEN call[r][k].score ELSE 0

\* C12: the run's output is fixed by the candidate list and the scores alone,
\* whatever the mode and the order the batch workers settled in: exactly the
\* candidates scored 40 or more, each once with its score, by score
\* descending and, at equal scores, in retrieval order.
C12_OutputFixedByScores ==
    \A r \in Runs :
        ScoringDone(r) =>
            LET out == validMatches[r]
                accepted == {k \in 1..Len(trials[r]) :
                                ScoreGiven(r, k) # NaN /\ ScoreGiven(r, k) >= 40}
            IN  /\ Len(out) = Cardinality(accepted)
                /\ {out[j].trialId : j \in 1..Len(out)} = {trials[r][k] : k \in accepted}
                /\ \A j \in 1..Len(out) : \A k \in accepted :
                      out[j].trialId = trials[r][k]
                          => out[j].confidenceScore = ScoreGiven(r, k)
                /\ \A j, h \in 1..Len(out) :
                      j < h => \/ out[j].confidenceScore > out[h].confidenceScore
                               \/ /\ out[j].confidenceScore = out[h].confidenceScore
                                  /\ out[j].trialId < out[h].trialId

\* a ranked list without the fields a later run may change (id, createdAt)
Ranked(seq) ==
    [j \in 1..Len(seq) |-> [trialId |-> seq[j].trialId,
                            confidenceScore |-> seq[j].confidenceScore]]

Persisted(p) == {[trialId |-> d.trialId, confidenceScore |-> d.confidenceScore] :
                    d \in DocsOf(p)}

\* C13: when two runs for the same patient, one right after the other, have
\* both completed, the second's ranked set is the first's (same trials, same
\* scores, same order), and the patient's persisted set is what the first
\* run left: its accepted set, or the earlier set when it accepted nothing.
C13_SecondRunSameAsFirst ==
    (/\ pc["r1"] = "done" /\ outcome["r1"] = "complete"
     /\ pc["r2"] = "done" /\ outcome["r2"] = "complete")
        => /\ Ranked(validMatches["r2"]) = Ranked(validMatches["r1"])
           /\ Persisted("p1") =
                 IF validMatches["r1"] # <<>>
                 THEN Range(Ranked(validMatches["r1"]))
                 ELSE {[trialId |-> 1, confidenceScore |-> 85]}

\* the positions of the terminal events (complete, error) among r's events
TerminalEvents(r) ==
    {j \in 1..Len(events[r]) : events[r][j].type \in {"complete", "error"}}

\* C14: a streaming run writes at most one terminal event, nothing after it,
\* and when the handler has returned exactly one: complete for a completed
\* run, error for every other.
C14_OneTerminalEventLast ==
    \A r \in Runs :
        mode[r] = "stream"
            => /\ Cardinality(TerminalEvents(r)) <= 1
               /\ \A j \in TerminalEvents(r) : j = Len(events[r])
               /\ (pc[r] = "done") = (TerminalEvents(r) # {})
               /\ \A j \in TerminalEvents(r) :
                     (events[r][j].type = "complete") = (outcome[r] = "complete")

\* two streaming runs have returned, one completed after scoring and one
\* failed at its insert
C14_Witness ==
    \E r, q \in Runs :
        /\ mode[r] = "stream" /\ mode[q] = "stream"
        /\ pc[r] = "done" /\ outcome[r] = "complete" /\ Len(TrialEvents(r)) > 0
        /\ pc[q] = "done" /\ outcome[q] = "failed"
        /\ events[q][Len(events[q])].text = InsertError

\* C15: every run that has started eventually returns (Done or Errored),
\* also when the registry or the reasoning service never answers a call.
C15_EveryRunTerminates ==
    (pc["r1"] # "idle") ~> (pc["r1"] = "done")

Replaced(r) == pc[r] = "done" /\ outcome[r] = "complete" /\ validMatches[r] # <<>>

\* C17: once every run has returned, a patient for whom some run completed
\* with a non-empty accepted set has exactly the accepted results of one such
\* run persisted: the set is one run's, never a mix of two runs' documents.
C17_ReplaceNotMerge ==
    (\A r \in Runs : pc[r] = "done")
        => \A p \in PatientIds :
              (\E r \in Runs : patientId[r] = p /\ Replaced(r))
                  => \E r \in Runs : /\ patientId[r] = p
                                    /\ Replaced(r)
                                    /\ DocsOf(p) = Range(validMatches[r])

\* c outranks d in the planner's order: an oncology term before any other,
\* and within a group the longer string
Outranks(c, d) ==
    \/ c.onco /\ ~d.onco
    \/ c.onco = d.onco /\ c.len > d.len

\* C18: for every non-empty condition list the primary condition is a
\* condition of the list that no condition of the list outranks; for the two
\* conditions of the example it is "Papillary Thyroid Carcinoma" in either
\* order.
C18_PrimaryIsTopRanked ==
    (search \notin {"idle", "start"} /\ conditions # <<>>)
        => /\ \E j \in 1..Len(conditions) : primaryCondition = Trim(conditions[j])
           /\ \A j \in 1..Len(conditions) : ~Outranks(conditions[j], primaryCondition)
           /\ (\E j \in 1..Len(conditions) :
                  conditions[j].name = "Papillary Thyroid Carcinoma")
                 => primaryCondition.name = "Papillary Thyroid Carcinoma"

\* C19: a primary query that fails (non-2xx answer or rejected fetch) fails
\* the whole retrieval, and an expansion query that fails the same way after
\* a primary query that succeeded leaves the retrieval returning the primary
\* query's studies.
C19_OnlyPrimaryFailureFails ==
    \A j \in 1..Len(queries) :
        /\ (queries[j].query = "primary" /\ queries[j].answer # "ok")
              => search = "thrown"
        /\ (queries[j].query = "expansion" /\ queries[j].answer # "ok")
              => /\ search = "returned"
                 /\ found = queries[j - 1].studies

\* C20: a run whose registry search failed ends as a failed run with the
\* retrieval error, in streaming mode and in batch mode; it never ends as a
\* run that found no trials.
C20_RetrievalFailureSurfaces ==
    \A r \in Runs :
        (pc[r] = "done" /\ retrieved[r] = "failed")
            => /\ outcome[r] = "failed"
               /\ mode[r] = "stream" =>
                     /\ events[r][Len(events[r])].type = "error"
                     /\ events[r][Len(events[r])].text = RegistryError

\* neither path of the parser yields a payload: the content is not JSON and
\* the regex finds nothing or finds text that does not parse, or the content
\* is JSON without a number under "score" and a string under "reasoning"
TotalParseFailure(c) ==
    \/ c.form \in {"text", "embeddedBad", "jsonOther"}
    \/ c.form = "json" /\ ~DirectAccepts(c)

IndexIn(sq, t) == IF t \in Range(sq) THEN CHOOSE j \in 1..Len(sq) : sq[j] = t ELSE 0

\* searchTrials returned the combined list: the last query is an expansion
\* query the registry answered
ExpansionUsed ==
    /\ search = "returned"
    /\ Len(queries) = 2
    /\ queries[2].query = "expansion"
    /\ queries[2].answer = "ok"

\* C22: when the expansion query is used, the list searchTrials returns is the
\* primary query's studies in their order, then the expansion query's studies
\* that are not among them, in their order, cut to the page size of 30: no
\* nctId is in it twice and it is never longer than 30.
C22_CombinedListDedupedAndCapped ==
    ExpansionUsed =>
        LET primary == queries[1].studies
            expanded == queries[2].studies
            extra == Range(expanded) \ Range(primary)
        IN  /\ Len(found) <= 30
            /\ Len(found) = Min2(30, Len(primary) + Cardinality(extra))
            /\ \A j, k \in 1..Len(found) : j # k => found[j] # found[k]
            /\ \A j \in 1..Len(found) :
                  IF j <= Len(primary) THEN found[j] = primary[j]
                  ELSE found[j] \in extra
            /\ \A j, k \in (Len(primary) + 1)..Len(found) :
                  j < k => IndexIn(expanded, found[j]) < IndexIn(expanded, found[k])

\* both queries returned a common study, and the joined list was cut
C22_Witness ==
    /\ ExpansionUsed
    /\ Range(queries[1].studies) \cap Range(queries[2].studies) # {}
    /\ Len(found) = MaxResults
    /\ Len(queries[1].studies)
          + Cardinality(Range(queries[2].studies) \ Range(queries[1].studies)) > MaxResults

\* the phase a request is in, by the await its handler is suspended at:
\* 0 Idle, 1 Retrieving, 2 Scoring, 3 Persisting, 4 Done or Errored
Phase(r) ==
    CASE pc[r] = "idle" -> 0
      [] pc[r] \in {"clearTrials", "getAllTrials", "searchTrials", "upsertTrial"} -> 1
      [] pc[r] \in {"dispatch", "settle"} -> 2
      [] pc[r] \in {"deleteMany", "insertMany", "notify"} -> 3
      [] OTHER -> 4

\* the positions of r's events of the given types
EventsOfType(r, types) == {j \in 1..Len(events[r]) : events[r][j].type \in types}

ScoringEventTypes == {"matching_start", "matching_trial", "matching_complete"}

\* r has written to the matches collection, or is about to: it is past the
\* scoring pass with a non-empty accepted set, or a document of its own is stored
WriteStarted(r) ==
    \/ pc[r] \in {"deleteMany", "insertMany"}
    \/ \E d \in matches : d.createdAt = Now(r)

\* C23: a run moves through its phases forward only (Idle, Retrieving,
\* Scoring, Persisting, Done or Errored) and stays in its terminal phase; in a
\* streaming run every scoring event comes after the retrieval-complete
\* event; and the write to the matches collection starts only when all N
\* candidates have been scored and, in a streaming run, the
\* matching_complete event has been written.
C23_PhasesOnlyForward ==
    [][\A r \in Runs :
          /\ Phase(r)' >= Phase(r)
          /\ Phase(r) = 4 => (pc'[r] = pc[r] /\ outcome'[r] = outcome[r])
          /\ (mode[r] = "stream")' =>
                (\A j \in EventsOfType(r, ScoringEventTypes) :
                    \E h \in EventsOfType(r, {"firecrawl_complete"}) : h < j)'
          /\ WriteStarted(r)' =>
                (/\ Len(results[r]) = Len(trials[r])
                 /\ Len(trials[r]) > 0
                 /\ \A k \in 1..Len(call[r]) : Settled(call[r][k])
                 /\ mode[r] = "stream" =>
                       EventsOfType(r, {"matching_complete"}) # {})']_vars

\* a streaming run went through every phase and stored its matches
C23_Witness ==
    \E r \in Runs :
        /\ mode[r] = "stream"
        /\ pc[r] = "done" /\ outcome[r] = "complete"
        /\ \E d \in matches : d.createdAt = Now(r)
        /\ EventsOfType(r, {"firecrawl_complete"}) # {}
        /\ EventsOfType(r, {"matching_complete"}) # {}

\* C24: in both modes the candidates a run scores are exactly the trials the
\* registry returns for the conditions of the run's patient: a trial that is
\* in the trials collection because of another patient's run, or of the
\* startup ingestion, is never scored for this patient.
C24_ScoresOwnRetrievalOnly ==
    \A r \in Runs :
        Phase(r) \in {2, 3}
            => trials[r] = TrialsFor(patientId[r])

\* the entries of r's result list for candidate k
ResultsFor(r, k) == {j \in 1..Len(results[r]) : results[r][j].trialId = trials[r][k]}

\* the scoring pass of r has returned its result list to the handler
PassReturned(r) ==
    \/ pc[r] \in {"deleteMany", "insertMany", "notify"}
    \/ pc[r] = "done" /\ outcome[r] = "complete"

\* C25: the result list a scoring pass returns has exactly one MatchResult
\* per candidate, in both modes, also when in incremental mode the delivery
\* of a progress event failed after a candidate had been scored.
C25_OneResultPerCandidate ==
    \A r \in Runs :
        PassReturned(r)
            => /\ Len(results[r]) = Len(trials[r])
               /\ \A k \in 1..Len(trials[r]) : Cardinality(ResultsFor(r, k)) = 1

\* r reported a failure of its insert step: it had matches to store, it is
\* done, and it ended as failed
InsertFailed(r) ==
    /\ pc[r] = "done"
    /\ outcome[r] = "failed"
    /\ validMatches[r] # <<>>

\* C26: when the insert step of a replace fails after its delete step, the
\* matches the patient had before the run are still stored when the run
\* reports the failure.
C26_FailedInsertKeepsPriorSet ==
    \A r \in Runs :
        InsertFailed(r) => \E prior \in InitStores : prior \subseteq matches

\* the step is a step of request r's handler
Stepped(r) == pc'[r] # pc[r] \/ i'[r] # i[r] \/ call'[r] # call[r]

\* C27: the list GET /api/matches/:patientId returns for a patient changes
\* only in a step of a matching run for that patient: no step of a run for
\* another patient changes it.
C27_ListChangesOnlyByOwnRuns ==
    [][\A p \in PatientIds :
          GetMatches(p)' # GetMatches(p)
              => \E r \in Runs : patientId'[r] = p /\ Stepped(r)]_vars

\* C28: a streaming run that failed in retrieval (the registry search
\* failed) leaves the trials collection and the matches collection as they
\* were before the run started.
C28_FailedRetrievalLeavesStores ==
    (/\ mode["r1"] = "stream"
     /\ pc["r1"] = "done"
     /\ retrieved["r1"] = "failed")
        => /\ trialsStore \in InitTrialStores
           /\ matches \in InitStores

\* C29: for one streaming run MatchingFlow calls onComplete at most once and
\* never both onComplete and onError, whatever event sequence the server
\* wrote.
C29_OneCompletionCallback ==
    /\ onCompleteCalls <= 1
    /\ ~(onCompleteCalls >= 1 /\ onErrorCalls >= 1)

\* the calls of handleSSEEvent a stream of events should give: each event
\* under its own name with its own data
EventsOf(evs) == [k \in 1..Len(evs) |-> [event |-> evs[k], data |-> k]]

\* C30: however the body is cut into chunks, once all of it has been read
\* handleSSEEvent has been called with every event of the stream, in order,
\* each under its own event name with its own data.
C30_DispatchIndependentOfChunks ==
    received = Len(Encode(wire)) => dispatched = EventsOf(wire)

====
